---- MODULE Spec2Model ----
(***************************************************************************)
(* bborbe/badgerkv: the bucket and transaction layer over the badger       *)
(* key-value engine.  Byte sequences are sequences of byte values; the     *)
(* engine is the ordered map from engine keys to values that badger        *)
(* offers, with per-transaction snapshots and pending writes.              *)
(***************************************************************************)
EXTENDS Integers, Sequences, FiniteSets, TLC

(* ------------------------------------------------------------------ *)
(* Bounds and the finite universes the inputs are drawn from            *)
(* ------------------------------------------------------------------ *)

\* View/Update calls made in one behaviour (accepted or rejected)
MaxCalls == 2

\* operations, iterator moves included, issued in one behaviour of SpecIter
MaxIterOps == 4

\* relation store calls in one behaviour of SpecRel, the longest relatedIds list
\* handed to one, and the latest write of a call at which the engine may fail
MaxRelOps == 2
MaxRelLen == 2
MaxFailAt == 3

\* longest bucket name and longest raw key handed to the key codec in SpecCodec
MaxNameLen == 2
MaxKeyLen == 2

\* operations, bucket lifecycle included, issued in one behaviour of SpecBuckets
MaxBucketOps == 3

\* bucket and transaction operations issued in one behaviour
MaxOps == 2

\* largest spare capacity of the slice of a bucket name in SpecSlices
MaxSpare == 3

\* goroutines, each with its own background context
Procs == {1, 2}

\* the goroutines that call the database in Spec; a call fn makes with a
\* background context already overlaps two transactions
Callers == {1}

\* bucket names: "a" and "ab", which has "a" as a proper byte-prefix
BucketNames == {<<97>>, <<97, 98>>}

\* raw keys: "a" and "b"
RawKeys == {<<97>>, <<98>>}

\* values: the empty value and a one-byte value
Values == {<< >>, <<1>>}

(* ------------------------------------------------------------------ *)
(* Key codec                                                            *)
(* ------------------------------------------------------------------ *)

\* the delimiter byte '_'
Delim == 95

BucketToPrefix(bucket) == Append(bucket, Delim)

\* BucketAddKey that leaves the bucket name out of the engine key
BucketAddKeyNoBucket(bucket, key) == <<Delim>> \o key

BucketAddKey(bucket, key) == BucketToPrefix(bucket) \o key

\* BucketRemoveKey that strips the bucket name and keeps the delimiter
BucketRemoveKeyKeepDelim(bucket, key) == SubSeq(key, Len(bucket) + 1, Len(key))

BucketRemoveKey(bucket, key) == SubSeq(key, Len(bucket) + 2, Len(key))

\* bytes.HasPrefix
HasPrefix(s, prefix) ==
    /\ Len(s) >= Len(prefix)
    /\ SubSeq(s, 1, Len(prefix)) = prefix

\* bytes.Compare(a, b) < 0: the order the engine keeps its keys in
RECURSIVE KeyLess(_, _)
KeyLess(a, b) ==
    IF b = << >> THEN FALSE
    ELSE IF a = << >> THEN TRUE
    ELSE IF Head(a) < Head(b) THEN TRUE
    ELSE IF Head(a) > Head(b) THEN FALSE
    ELSE KeyLess(Tail(a), Tail(b))

KeyLessEq(a, b) == a = b \/ KeyLess(a, b)

\* every engine key a bucket operation of the model can address
EngineKeys == {BucketAddKey(b, k) : b \in BucketNames, k \in RawKeys}

(* ------------------------------------------------------------------ *)
(* The engine: committed content, transactions, point operations        *)
(* ------------------------------------------------------------------ *)

\* a value handed to a Value consumer: nil, or (possibly empty) bytes
NilValue == [isNil |-> TRUE, bytes |-> << >>]

BytesValue(b) == [isNil |-> FALSE, bytes |-> b]

\* content with key set to value
StoreSet(content, key, value) ==
    [x \in (DOMAIN content) \cup {key} |-> IF x = key THEN value ELSE content[x]]

\* content without key
StoreDel(content, key) ==
    [x \in (DOMAIN content) \ {key} |-> content[x]]

\* what a transaction reads: its snapshot overlaid with its pending writes
TxnView(snap, pending) ==
    [x \in ((DOMAIN snap) \cup {y \in DOMAIN pending : ~pending[y].deleted})
           \ {y \in DOMAIN pending : pending[y].deleted}
       |-> IF x \in DOMAIN pending THEN pending[x].value ELSE snap[x]]

\* badger Txn.Commit: every pending write applied to the committed content
CommitWrites(content, pending) == TxnView(content, pending)

\* badger Txn.Get: pending writes first (read-write only), then the snapshot
TxnGet(t, key) ==
    IF t.update /\ key \in DOMAIN t.pending
    THEN IF t.pending[key].deleted
         THEN [err |-> "ErrKeyNotFound", key |-> key, value |-> << >>]
         ELSE [err |-> "nil", key |-> key, value |-> t.pending[key].value]
    ELSE IF key \in DOMAIN t.snap
         THEN [err |-> "nil", key |-> key, value |-> t.snap[key]]
         ELSE [err |-> "ErrKeyNotFound", key |-> key, value |-> << >>]

\* badger Txn.Set that accepts the write in a read-only transaction as well
TxnSetAnyTxn(t, key, value) ==
    [err |-> "nil",
     pending |-> StoreSet(t.pending, key, [deleted |-> FALSE, value |-> value])]

\* badger Txn.Set: refused by a read-only transaction
TxnSet(t, key, value) ==
    IF ~t.update
    THEN [err |-> "ErrReadOnlyTxn", pending |-> t.pending]
    ELSE [err |-> "nil",
          pending |-> StoreSet(t.pending, key, [deleted |-> FALSE, value |-> value])]

\* badger Txn.Delete: a tombstone among the pending writes
TxnDelete(t, key) ==
    IF ~t.update
    THEN [err |-> "ErrReadOnlyTxn", pending |-> t.pending]
    ELSE [err |-> "nil",
          pending |-> StoreSet(t.pending, key, [deleted |-> TRUE, value |-> << >>])]

(* ------------------------------------------------------------------ *)
(* The key codec on Go slices                                           *)
(* ------------------------------------------------------------------ *)

\* a Go slice: the array it points into, its length and its capacity; every slice
\* here begins at the first element of its array
NoSlice == [arr |-> 0, len |-> 0, cap |-> 0]

\* the bytes a slice reads now
SliceBytes(heap, s) == SubSeq(heap[s.arr], 1, s.len)

\* Go's append(s, bytes...): within the capacity of s the bytes are written into the
\* array of s, behind its length; beyond it they go, with the bytes of s, into a new
\* array. No slice here is appended to after it moved to a new array, so the
\* capacity of a new array is its length.
GoAppend(heap, s, bytes) ==
    IF s.len + Len(bytes) <= s.cap
    THEN [heap  |-> [heap EXCEPT ![s.arr] =
                        SubSeq(@, 1, s.len) \o bytes
                            \o SubSeq(@, s.len + Len(bytes) + 1, Len(@))],
          slice |-> [s EXCEPT !.len = s.len + Len(bytes)]]
    ELSE [heap  |-> Append(heap, SliceBytes(heap, s) \o bytes),
          slice |-> [arr |-> Len(heap) + 1,
                     len |-> s.len + Len(bytes),
                     cap |-> s.len + Len(bytes)]]

\* BucketToPrefix on the slice of the bucket name: append(bucket, '_')
BucketToPrefixSlice(heap, bucket) == GoAppend(heap, bucket, <<Delim>>)

\* BucketAddKey on the slice of the bucket name: append(BucketToPrefix(bucket), key...)
BucketAddKeySlice(heap, bucket, key) ==
    LET prefix == BucketToPrefixSlice(heap, bucket)
    IN  GoAppend(prefix.heap, prefix.slice, key)

\* badger Txn.Set on a key slice: the entry is filed under the bytes the key reads
\* now and keeps the slice itself, not a copy of its bytes
TxnSetSlice(pendingWrites, heap, key, value) ==
    StoreSet(pendingWrites, SliceBytes(heap, key), [key |-> key, value |-> value])

\* badger Txn.Commit on such entries: each is stored under the bytes its key slice
\* reads at commit; of several entries that read the same bytes any one may be the
\* one that remains
CommitSlices(heap, pendingWrites) ==
    LET written == {SliceBytes(heap, pendingWrites[s].key) : s \in DOMAIN pendingWrites}
        values  == {pendingWrites[s].value : s \in DOMAIN pendingWrites}
    IN  {f \in [written -> values] :
            \A k \in written :
                \E s \in DOMAIN pendingWrites :
                    /\ SliceBytes(heap, pendingWrites[s].key) = k
                    /\ pendingWrites[s].value = f[k]}

(* ------------------------------------------------------------------ *)
(* Items                                                                *)
(* ------------------------------------------------------------------ *)

\* badger Item.Value: the consumer is handed a buffer resized to the length of the
\* stored value, which for a zero-length value is the nil slice of a fresh buffer
BadgerItemValue(badgerItem) ==
    IF badgerItem.value = << >> THEN NilValue ELSE BytesValue(badgerItem.value)

\* the item of a key the engine found
NewItem(bucketName, badgerItem) ==
    [exists |-> TRUE,
     key    |-> BucketRemoveKey(bucketName, badgerItem.key),
     value  |-> BadgerItemValue(badgerItem)]

\* libkv.NewByteItem(key, nil): the item of a key the engine did not find
NewByteItem(key) ==
    [exists |-> FALSE, key |-> key, value |-> NilValue]

\* an item slot that holds no item
NoItem == [exists |-> FALSE, key |-> << >>, value |-> NilValue]

\* bucket.Get that hands the engine's "key not found" on as an error
BucketGetSurfacesNotFound(t, bucketName, key) ==
    LET got == TxnGet(t, BucketAddKey(bucketName, key))
    IN  IF got.err # "nil"
        THEN [err |-> "get failed", item |-> NoItem]
        ELSE [err |-> "nil", item |-> NewItem(bucketName, got)]

\* bucket.Get
BucketGet(t, bucketName, key) ==
    LET got == TxnGet(t, BucketAddKey(bucketName, key))
    IN  IF got.err # "nil"
        THEN IF got.err = "ErrKeyNotFound"
             THEN [err |-> "nil", item |-> NewByteItem(key)]
             ELSE [err |-> "get failed", item |-> NoItem]
        ELSE [err |-> "nil", item |-> NewItem(bucketName, got)]

\* bucket.Put that writes under the raw key
BucketPutRawKey(t, bucketName, key, value) == TxnSet(t, key, value)

\* bucket.Put
BucketPut(t, bucketName, key, value) ==
    TxnSet(t, BucketAddKey(bucketName, key), value)

\* bucket.Delete that deletes the raw key
BucketDeleteRawKey(t, bucketName, key) == TxnDelete(t, key)

\* bucket.Delete that refuses a key the transaction does not see
BucketDeleteIfPresent(t, bucketName, key) ==
    IF TxnGet(t, BucketAddKey(bucketName, key)).err = "nil"
    THEN TxnDelete(t, BucketAddKey(bucketName, key))
    ELSE [err |-> "delete failed", pending |-> t.pending]

\* bucket.Delete
BucketDelete(t, bucketName, key) ==
    TxnDelete(t, BucketAddKey(bucketName, key))

(* ------------------------------------------------------------------ *)
(* The engine's ordered cursor and the bucket iterator over it          *)
(* ------------------------------------------------------------------ *)

\* a cursor that stands on no entry (badger's item == nil)
NoPos == [valid |-> FALSE, key |-> << >>]

AtKey(key) == [valid |-> TRUE, key |-> key]

\* the smallest key of a non-empty set of keys
MinKey(keys) == CHOOSE k \in keys : \A o \in keys : KeyLessEq(k, o)

\* the largest key of a non-empty set of keys
MaxKey(keys) == CHOOSE k \in keys : \A o \in keys : KeyLessEq(o, k)

\* the cursor on the first key of keys in the iterator's direction
FirstOf(keys, reverse) ==
    IF keys = {} THEN NoPos
    ELSE IF reverse THEN AtKey(MaxKey(keys)) ELSE AtKey(MinKey(keys))

\* badger Iterator.Rewind with no Prefix option: the first key of the whole store
EngineRewind(view, reverse) == FirstOf(DOMAIN view, reverse)

\* badger Iterator.Seek: forward the smallest key >= key, reverse the largest <= key
EngineSeek(view, reverse, key) ==
    IF reverse
    THEN FirstOf({k \in DOMAIN view : KeyLessEq(k, key)}, TRUE)
    ELSE FirstOf({k \in DOMAIN view : KeyLessEq(key, k)}, FALSE)

\* badger Iterator.Next: one step in the iterator's direction
EngineNext(view, reverse, pos) ==
    IF ~pos.valid THEN NoPos
    ELSE IF reverse
    THEN FirstOf({k \in DOMAIN view : KeyLess(k, pos.key)}, TRUE)
    ELSE FirstOf({k \in DOMAIN view : KeyLess(pos.key, k)}, FALSE)

\* badger Iterator.ValidForPrefix
EngineValidForPrefix(pos, prefix) == pos.valid /\ HasPrefix(pos.key, prefix)

\* an iterator that reads the snapshot only, blind to the transaction's own writes
NewIteratorSnapshotOnly(t, bucketName, reverse) ==
    [open       |-> TRUE,
     bucketName |-> bucketName,
     reverse    |-> reverse,
     view       |-> t.snap,
     pos        |-> NoPos]

\* bucket.createIterator / NewIterator: a cursor over what the transaction reads
NewIterator(t, bucketName, reverse) ==
    [open       |-> TRUE,
     bucketName |-> bucketName,
     reverse    |-> reverse,
     view       |-> TxnView(t.snap, t.pending),
     pos        |-> NoPos]

\* no iterator is open
NoIterator ==
    [open |-> FALSE, bucketName |-> << >>, reverse |-> FALSE, view |-> << >>,
     pos |-> NoPos]

\* iterator.Valid
IterValid(i) == EngineValidForPrefix(i.pos, i.bucketName)

\* iterator.Rewind
IterRewind(i) == [i EXCEPT !.pos = EngineRewind(i.view, i.reverse)]

\* iterator.Seek
IterSeek(i, key) ==
    [i EXCEPT !.pos = EngineSeek(i.view, i.reverse, BucketAddKey(i.bucketName, key))]

\* iterator.Next
IterNext(i) == [i EXCEPT !.pos = EngineNext(i.view, i.reverse, i.pos)]

\* iterator.Item, on a cursor that stands on an entry
IterItem(i) == NewItem(i.bucketName, [key |-> i.pos.key, value |-> i.view[i.pos.key]])

\* the caller's loop from the cursor of i on: for it.Valid() { it.Item(); it.Next() }
RECURSIVE IterateFrom(_)
IterateFrom(i) ==
    IF ~IterValid(i) THEN << >>
    ELSE <<IterItem(i)>> \o IterateFrom(IterNext(i))

\* a full iteration of bucket bucketName in transaction t: Rewind, then the loop
FullIteration(t, bucketName, reverse) ==
    IterateFrom(IterRewind(NewIterator(t, bucketName, reverse)))

\* tx.Bucket: a bucket handle on the transaction, whatever the store holds
TxBucket(t, name) == [err |-> "nil", bucket |-> name, pending |-> t.pending]

\* tx.CreateBucket: a bucket handle on the transaction; nothing is written
TxCreateBucket(t, name) == [err |-> "nil", bucket |-> name, pending |-> t.pending]

\* tx.CreateBucketIfNotExists that refuses a bucket that holds keys
TxCreateBucketIfNotExistsStrict(t, name) ==
    IF \E key \in DOMAIN TxnView(t.snap, t.pending) : HasPrefix(key, BucketToPrefix(name))
    THEN [err |-> "AlreadyExistsError", bucket |-> << >>, pending |-> t.pending]
    ELSE [err |-> "nil", bucket |-> name, pending |-> t.pending]

\* tx.CreateBucketIfNotExists: a bucket handle on the transaction; nothing is written
TxCreateBucketIfNotExists(t, name) ==
    [err |-> "nil", bucket |-> name, pending |-> t.pending]

\* Tx.ListBucketNames, which the tx of this source does not have: the bucket names the
\* transaction can know of, those whose prefix a key it reads begins with
TxListBucketNames(t) ==
    {b \in BucketNames :
        \E key \in DOMAIN TxnView(t.snap, t.pending) : HasPrefix(key, BucketToPrefix(b))}


RECURSIVE DeleteBucketLoop(_, _, _, _)
DeleteBucketLoop(t, view, pos, name) ==
    IF ~pos.valid THEN [err |-> "nil", pending |-> t.pending]
    ELSE IF ~HasPrefix(pos.key, name) THEN [err |-> "nil", pending |-> t.pending]
    ELSE LET d == TxnDelete(t, pos.key)
         IN  IF d.err # "nil"
             THEN [err |-> "delete bucket failed", pending |-> t.pending]
             ELSE DeleteBucketLoop([t EXCEPT !.pending = d.pending], view,
                                   EngineNext(view, FALSE, pos), name)

\* tx.DeleteBucket
TxDeleteBucket(t, name) ==
    LET view == TxnView(t.snap, t.pending)
    IN  DeleteBucketLoop(t, view, EngineSeek(view, FALSE, name), name)

(* ------------------------------------------------------------------ *)
(* Contexts and the open-transaction marker                             *)
(* ------------------------------------------------------------------ *)

\* errors.Wrapf(ctx, err, message): an error that carries the message and wraps err,
\* here the messages from the outermost in, then the error first raised
Wrapf(err, message) == <<message>> \o err

\* the error fn returns when it fails, and the one a failed engine commit returns
FnError == <<"fn error">>
EngineError == <<"engine error">>

\* context.Background(): no value under stateCtxKey
Background == [state |-> "nil"]

\* IsTransactionOpen that never finds the marker
IsTransactionOpenNever(ctx) == FALSE

IsTransactionOpen(ctx) == ctx.state # "nil"

\* SetOpenState that hands the context back without the marker
SetOpenStateUnmarked(ctx) == ctx

SetOpenState(ctx) == [ctx EXCEPT !.state = "open"]

(* ------------------------------------------------------------------ *)
(* History kept beside the program state: what each (bucket, key) was   *)
(* last asked to hold, by the bucket operations issued so far           *)
(* ------------------------------------------------------------------ *)

LKeys == BucketNames \X RawKeys

LNever == [st |-> "never", val |-> << >>]

LDeleted == [st |-> "deleted", val |-> << >>]

LUnknown == [st |-> "unknown", val |-> << >>]

LPut(v) == [st |-> "put", val |-> v]

\* the history of a store that was opened with this content
LFromStore(content) ==
    [x \in LKeys |-> IF BucketAddKey(x[1], x[2]) \in DOMAIN content
                     THEN LPut(content[BucketAddKey(x[1], x[2])])
                     ELSE LNever]

\* the buckets of a store that was opened with this content: those that hold keys
BFromStore(content) ==
    [b \in BucketNames |-> \E key \in DOMAIN content : HasPrefix(key, BucketToPrefix(b))]

\* the history after an accepted Delete of (b, k)
LAfterDelete(lview, b, k) ==
    [lview EXCEPT ![<<b, k>>] = IF @.st = "never" THEN @ ELSE LDeleted]

\* the history after an accepted DeleteBucket(b): the keys of b are gone; what a
\* bucket whose name merely starts with b still holds is not recorded
LAfterDeleteBucket(lview, b) ==
    [x \in LKeys |->
        IF lview[x].st = "never" THEN lview[x]
        ELSE IF x[1] = b THEN LDeleted
        ELSE IF HasPrefix(x[1], b) /\ lview[x].st = "put" THEN LUnknown
        ELSE lview[x]]

(* ------------------------------------------------------------------ *)
(* State                                                                *)
(* ------------------------------------------------------------------ *)

VARIABLES
    store,   \* committed content of the badger database: engine key -> value
    lstore,  \* history: what the committed bucket operations asked for
    lbuckets,\* history: which buckets the committed transaction operations left existing
    stack,   \* per goroutine: its open transactions, innermost last
    ret,     \* per goroutine: what its last returned View/Update call returned
    res,     \* per goroutine: the result of the last operation issued inside fn
    iter,    \* per goroutine: the iterator its innermost fn holds
    ncalls,  \* View/Update calls made so far
    nops,    \* operations issued inside fn so far
    codec,   \* the key codec applied on its own: its inputs and what it returned
    mem      \* the key codec's slices in memory: arrays, the slices into them, and
             \* the writes an engine transaction holds by reference

vars == <<store, lstore, lbuckets, stack, ret, res, iter, ncalls, nops, codec, mem>>

Top(p) == stack[p][Len(stack[p])]

NoRet ==
    [kind |-> "none", ctxOpen |-> FALSE, err |-> "nil",
     fnInvoked |-> FALSE, fnErr |-> FALSE, engineOk |-> TRUE, chain |-> << >>]

NoRes ==
    [op |-> "none", bucket |-> << >>, key |-> << >>, err |-> "nil",
     valid |-> FALSE, item |-> NoItem, existed |-> FALSE, names |-> {},
     related |-> << >>, old |-> << >>, ids |-> << >>, written |-> 0]

\* the key codec not called on its own
NoCodec ==
    [stage |-> "none", b1 |-> << >>, k1 |-> << >>, b2 |-> << >>, k2 |-> << >>,
     prefix |-> << >>, e1 |-> << >>, e2 |-> << >>, r1 |-> << >>, r2 |-> << >>]

\* no slice of the key codec followed in memory
NoMem ==
    [stage |-> "none", heap |-> << >>, bucket |-> NoSlice, x |-> << >>, y |-> << >>,
     k1 |-> NoSlice, k2 |-> NoSlice, pendingWrites |-> << >>]

\* what the database holds when it is opened: nothing (OpenMemory, OpenPath on a
\* new directory), or what an earlier run left (OpenPath): here "a"/"a" -> 1 and
\* "ab"/"a" -> the empty value
OpenedStores ==
    {<< >>,
     [x \in {BucketAddKey(<<97>>, <<97>>), BucketAddKey(<<97, 98>>, <<97>>)} |->
         IF x = BucketAddKey(<<97>>, <<97>>) THEN <<1>> ELSE << >>]}

Init ==
    /\ store \in OpenedStores
    /\ lstore = LFromStore(store)
    /\ lbuckets = BFromStore(store)
    /\ stack = [p \in Procs |-> << >>]
    /\ ret = [p \in Procs |-> NoRet]
    /\ res = [p \in Procs |-> NoRes]
    /\ iter = [p \in Procs |-> NoIterator]
    /\ ncalls = 0
    /\ nops = 0
    /\ codec = NoCodec
    /\ mem = NoMem

(* ------------------------------------------------------------------ *)
(* DB.Update and DB.View                                                *)
(* ------------------------------------------------------------------ *)

\* the transaction badger begins for db.Update / db.View, and the fn frame on it
NewFrame(update, callCtx, content, history, existing) ==
    [update  |-> update,
     callCtx |-> callCtx,
     ctx     |-> SetOpenState(callCtx),
     snap    |-> content,
     pending |-> << >>,
     lview   |-> history,
     touched |-> {},
     lbuckets |-> existing,
     btouched |-> {}]

\* the return of a call the nesting check refused
Refused(update, ctx) ==
    [kind |-> IF update THEN "Update" ELSE "View",
     ctxOpen |-> ctx.state # "nil", err |-> "TransactionAlreadyOpenError",
     fnInvoked |-> FALSE, fnErr |-> FALSE, engineOk |-> TRUE,
     chain |-> Wrapf(<<"TransactionAlreadyOpenError">>, "transaction already open")]

\* the caller's context if SetOpenState marked the context it is given in place:
\* marked from the first call on, whether or not that call has returned
CallerContextMarkedInPlace(p, inherit) ==
    IF inherit THEN Top(p).ctx
    ELSE IF ncalls > 0 THEN SetOpenState(Background) ELSE Background

\* the context a call is made with: the one fn was handed (inherit), or the caller's
\* own background context, which Update and View never modify: ctx = SetOpenState(ctx)
\* assigns their own parameter
CallerContext(p, inherit) == IF inherit THEN Top(p).ctx ELSE Background

\* badgerdb.Update / badgerdb.View up to the invocation of fn: goroutine p calls
\* with the context its innermost fn was handed (inherit) or with a background one
Call(p, update, inherit) ==
    /\ ncalls < MaxCalls
    /\ inherit => stack[p] # << >>
    /\ LET ctx == CallerContext(p, inherit)
       IN  IF IsTransactionOpen(ctx)
           THEN /\ ret' = [ret EXCEPT ![p] = Refused(update, ctx)]
                /\ UNCHANGED <<stack, iter>>
           ELSE /\ stack' = [stack EXCEPT ![p] =
                       Append(@, NewFrame(update, ctx, store, lstore, lbuckets))]
                /\ iter' = [iter EXCEPT ![p] = NoIterator]
                /\ UNCHANGED ret
    /\ ncalls' = ncalls + 1
    /\ res' = [res EXCEPT ![p] = NoRes]
    /\ UNCHANGED <<mem, codec, store, lstore, lbuckets, nops>>

\* db.Update that commits whatever fn returned
CommitsDespiteFnError(t, fnErr, engineOk) == t.update /\ engineOk

\* whether db.Update commits: fn returned nil and the engine accepts the commit
Commits(t, fnErr, engineOk) == t.update /\ ~fnErr /\ engineOk

\* the error badgerdb.Update / badgerdb.View returns once fn has returned
ReturnedErr(t, fnErr, engineOk) ==
    IF fnErr THEN IF t.update THEN "db update failed: fn" ELSE "db view failed: fn"
    ELSE IF t.update /\ ~engineOk THEN "db update failed: engine"
    ELSE "nil"

\* the error of badgerdb.Update / badgerdb.View replaced by a new one that does
\* not wrap what fn returned
ReturnedChainUnwrapped(t, fnErr, engineOk) ==
    LET message == IF t.update THEN "db update failed" ELSE "db view failed"
    IN  IF fnErr THEN <<message>>
        ELSE IF t.update /\ ~engineOk THEN Wrapf(EngineError, message)
        ELSE << >>

\* the error value badgerdb.Update / badgerdb.View returns once fn has returned: what
\* fn returned wrapped in the closure and again outside it, an engine error wrapped
\* once, or nil (the empty chain)
ReturnedChain(t, fnErr, engineOk) ==
    LET message == IF t.update THEN "db update failed" ELSE "db view failed"
    IN  IF fnErr THEN Wrapf(Wrapf(FnError, message), message)
        ELSE IF t.update /\ ~engineOk THEN Wrapf(EngineError, message)
        ELSE << >>

\* the history of the committed content once t has committed
LCommit(history, t) ==
    [x \in LKeys |-> IF x \in t.touched THEN t.lview[x] ELSE history[x]]

\* the existing buckets once t has committed
BCommit(existing, t) ==
    [b \in BucketNames |-> IF b \in t.btouched THEN t.lbuckets[b] ELSE existing[b]]

\* fn of the innermost transaction of p returns (with an error or nil) and
\* badgerdb.Update / badgerdb.View returns to its caller
End(p, fnErr, engineOk) ==
    /\ stack[p] # << >>
    /\ LET t == Top(p)
       IN  /\ (~t.update \/ fnErr) => engineOk
           /\ IF Commits(t, fnErr, engineOk)
              THEN /\ store' = CommitWrites(store, t.pending)
                   /\ lstore' = LCommit(lstore, t)
                   /\ lbuckets' = BCommit(lbuckets, t)
              ELSE UNCHANGED <<store, lstore, lbuckets>>
           /\ ret' = [ret EXCEPT ![p] =
                  [kind |-> IF t.update THEN "Update" ELSE "View",
                   ctxOpen |-> t.callCtx.state # "nil",
                   err |-> ReturnedErr(t, fnErr, engineOk),
                   fnInvoked |-> TRUE, fnErr |-> fnErr, engineOk |-> engineOk,
                   chain |-> ReturnedChain(t, fnErr, engineOk)]]
    /\ stack' = [stack EXCEPT ![p] = SubSeq(@, 1, Len(@) - 1)]
    /\ res' = [res EXCEPT ![p] = NoRes]
    /\ iter' = [iter EXCEPT ![p] = NoIterator]
    /\ UNCHANGED <<mem, codec, ncalls, nops>>

(* ------------------------------------------------------------------ *)
(* Operations fn issues on its transaction                              *)
(* ------------------------------------------------------------------ *)

\* p's innermost fn can issue one more operation
CanOp(p) == stack[p] # << >> /\ nops < MaxOps

\* the innermost transaction of p replaced by t, one operation later
Step(p, t) ==
    /\ stack' = [stack EXCEPT ![p] = [@ EXCEPT ![Len(@)] = t]]
    /\ nops' = nops + 1

\* bucket.Put(key, value) on tx.Bucket(b)
Put(p, b, k, v) ==
    /\ CanOp(p)
    /\ LET t == Top(p)
           r == BucketPut(t, b, k, v)
       IN  /\ Step(p, IF r.err = "nil"
                      THEN [t EXCEPT !.pending = r.pending,
                                     !.lview = [@ EXCEPT ![<<b, k>>] = LPut(v)],
                                     !.touched = @ \cup {<<b, k>>}]
                      ELSE t)
           /\ res' = [res EXCEPT ![p] =
                  NoRes]
    /\ UNCHANGED <<mem, codec, store, lstore, lbuckets, ret, iter, ncalls>>

\* bucket.Delete(key) on tx.Bucket(b)
Delete(p, b, k) ==
    /\ CanOp(p)
    /\ LET t == Top(p)
           r == BucketDelete(t, b, k)
       IN  /\ Step(p, IF r.err = "nil"
                      THEN [t EXCEPT !.pending = r.pending,
                                     !.lview = LAfterDelete(@, b, k),
                                     !.touched = @ \cup {<<b, k>>}]
                      ELSE t)
           /\ res' = [res EXCEPT ![p] =
                  NoRes]
    /\ UNCHANGED <<mem, codec, store, lstore, lbuckets, ret, iter, ncalls>>

\* bucket.Get(key) on tx.Bucket(b)
Get(p, b, k) ==
    /\ CanOp(p)
    /\ LET t == Top(p)
           r == BucketGet(t, b, k)
       IN  /\ Step(p, t)
           /\ res' = [res EXCEPT ![p] =
                  [NoRes EXCEPT !.op = "Get", !.bucket = b, !.key = k, !.err = r.err,
                                !.item = r.item]]
    /\ UNCHANGED <<mem, codec, store, lstore, lbuckets, ret, iter, ncalls>>

\* tx.DeleteBucket(b)
DeleteBucket(p, b) ==
    /\ CanOp(p)
    /\ LET t == Top(p)
           r == TxDeleteBucket(t, b)
       IN  /\ Step(p, IF r.err = "nil" /\ t.update
                      THEN [t EXCEPT !.pending = r.pending,
                                     !.lview = LAfterDeleteBucket(@, b),
                                     !.touched = @ \cup
                                         {x \in LKeys :
                                             /\ LAfterDeleteBucket(t.lview, b)[x] # t.lview[x]
                                             /\ BucketAddKey(x[1], x[2]) \in
                                                    DOMAIN TxnView(t.snap, t.pending)},
                                     !.lbuckets = [@ EXCEPT ![b] = FALSE],
                                     !.btouched = @ \cup {b}]
                      ELSE t)
           /\ res' = [res EXCEPT ![p] =
                  [NoRes EXCEPT !.op = "DeleteBucket", !.bucket = b, !.err = r.err,
                                !.existed = t.lbuckets[b]]]
    /\ UNCHANGED <<mem, codec, store, lstore, lbuckets, ret, iter, ncalls>>

Next ==
    \/ \E p \in Callers, update \in BOOLEAN, inherit \in BOOLEAN : Call(p, update, inherit)
    \/ \E p \in Callers, fnErr \in BOOLEAN, engineOk \in BOOLEAN : End(p, fnErr, engineOk)
    \/ \E p \in Callers, b \in BucketNames, k \in RawKeys, v \in Values : Put(p, b, k, v)
    \/ \E p \in Callers, b \in BucketNames, k \in RawKeys : Delete(p, b, k)
    \/ \E p \in Callers, b \in BucketNames, k \in RawKeys : Get(p, b, k)
    \/ \E p \in Callers, b \in BucketNames : DeleteBucket(p, b)

Spec == Init /\ [][Next]_vars

(* ------------------------------------------------------------------ *)
(* The relation store: relationStore wraps the operations of a          *)
(* RelationStoreTx, each in one transaction of the DB                   *)
(* ------------------------------------------------------------------ *)

\* the ids and the related ids of the relation, as byte strings
RelIDs == {<<105>>, <<106>>}
RelRelatedIDs == {<<114>>, <<115>>}

\* the relatedIds lists a caller hands over: any order, repetitions included
RelLists == UNION {[1..m -> RelRelatedIDs] : m \in 0..MaxRelLen}

\* the two index buckets: forward (id -> related ids), backward (related id -> ids)
ForwardBucket == <<102>>
BackwardBucket == <<103>>

\* the members of list seq
Members(seq) == {seq[i] : i \in DOMAIN seq}

\* list seq with x merged in: appended unless it is a member already
Merged(seq, x) == IF x \in Members(seq) THEN seq ELSE Append(seq, x)

\* list seq without x
RECURSIVE Without(_, _)
Without(seq, x) ==
    IF seq = << >> THEN << >>
    ELSE IF Head(seq) = x THEN Without(Tail(seq), x)
    ELSE <<Head(seq)>> \o Without(Tail(seq), x)

\* list seq with every repetition dropped
RECURSIVE Distinct(_)
Distinct(seq) ==
    IF seq = << >> THEN << >>
    ELSE <<Head(seq)>> \o Without(Distinct(Tail(seq)), Head(seq))

\* a relation operation under way on transaction t: no write issued, no error
RelStart(t, failAt) == [t |-> t, err |-> "nil", written |-> 0, failAt |-> failAt]

\* the set stored under key of an index bucket as the transaction reads it; no
\* entry reads as the empty set
RelRead(s, bucket, key) ==
    LET g == TxnGet(s.t, BucketAddKey(bucket, key))
    IN  IF g.err = "nil" THEN g.value ELSE << >>

\* one write of a relation operation: skipped once the operation has failed, failing
\* when the engine fails at this write, else applied to the transaction
RelApply(s, w) ==
    IF s.err # "nil" THEN s
    ELSE IF s.written = s.failAt \/ w.err # "nil"
    THEN [s EXCEPT !.err = "relation write failed"]
    ELSE [s EXCEPT !.t = [@ EXCEPT !.pending = w.pending], !.written = @ + 1]

\* bucket.Put of set under key of an index bucket
RelPut(s, bucket, key, set) ==
    RelApply(s, TxnSet(s.t, BucketAddKey(bucket, key), set))

\* bucket.Delete of key of an index bucket
RelDel(s, bucket, key) ==
    RelApply(s, TxnDelete(s.t, BucketAddKey(bucket, key)))

\* the step of Add that overwrites the forward set of id with the related id
RelAddOneOverwriting(s, id, r) ==
    LET s1 == RelPut(s, ForwardBucket, id, <<r>>)
    IN  RelPut(s1, BackwardBucket, r, Merged(RelRead(s1, BackwardBucket, r), id))

\* the step of Add for one related id: r merged into the forward set of id, then id
\* merged into the backward set of r
RelAddOne(s, id, r) ==
    LET s1 == RelPut(s, ForwardBucket, id, Merged(RelRead(s, ForwardBucket, id), r))
    IN  RelPut(s1, BackwardBucket, r, Merged(RelRead(s1, BackwardBucket, r), id))

\* RelationStoreTx.Add: each related id of the list added in turn
RECURSIVE RelTxAdd(_, _, _)
RelTxAdd(s, id, relatedIds) ==
    IF relatedIds = << >> THEN s
    ELSE RelTxAdd(RelAddOne(s, id, Head(relatedIds)), id, Tail(relatedIds))

\* the step of Remove that empties the forward set of id
RelRemoveOneClearing(s, id, r) ==
    LET s1 == RelPut(s, ForwardBucket, id, << >>)
    IN  RelPut(s1, BackwardBucket, r, Without(RelRead(s1, BackwardBucket, r), id))

\* the step of Remove that leaves the backward set of r as it is
RelRemoveOneForwardOnly(s, id, r) ==
    RelPut(s, ForwardBucket, id, Without(RelRead(s, ForwardBucket, id), r))

\* the step of Remove for one related id: r taken out of the forward set of id,
\* then id out of the backward set of r
RelRemoveOne(s, id, r) ==
    LET s1 == RelPut(s, ForwardBucket, id, Without(RelRead(s, ForwardBucket, id), r))
    IN  RelPut(s1, BackwardBucket, r, Without(RelRead(s1, BackwardBucket, r), id))

\* RelationStoreTx.Remove: each listed related id removed in turn
RECURSIVE RelTxRemove(_, _, _)
RelTxRemove(s, id, relatedIds) ==
    IF relatedIds = << >> THEN s
    ELSE RelTxRemove(RelRemoveOne(s, id, Head(relatedIds)), id, Tail(relatedIds))

\* id taken out of the backward set of each related id of the list
RECURSIVE RelUnlink(_, _, _)
RelUnlink(s, id, relatedIds) ==
    IF relatedIds = << >> THEN s
    ELSE LET r == Head(relatedIds)
         IN  RelUnlink(RelPut(s, BackwardBucket, r,
                              Without(RelRead(s, BackwardBucket, r), id)),
                       id, Tail(relatedIds))

\* id merged into the backward set of each related id of the list
RECURSIVE RelLink(_, _, _)
RelLink(s, id, relatedIds) ==
    IF relatedIds = << >> THEN s
    ELSE LET r == Head(relatedIds)
         IN  RelLink(RelPut(s, BackwardBucket, r,
                            Merged(RelRead(s, BackwardBucket, r), id)),
                     id, Tail(relatedIds))

\* the members of list seq that are not in set
RECURSIVE Outside(_, _)
Outside(seq, set) ==
    IF seq = << >> THEN << >>
    ELSE IF Head(seq) \in set THEN Outside(Tail(seq), set)
    ELSE <<Head(seq)>> \o Outside(Tail(seq), set)

\* Delete that takes id out of the backward sets and keeps its forward entry
RelTxDeleteKeepingForward(s, id, relatedIds) ==
    RelUnlink(s, id, RelRead(s, ForwardBucket, id))

\* RelationStoreTx.Delete: id taken out of the backward set of each of its related
\* ids, then its forward entry deleted
RelTxDelete(s, id, relatedIds) ==
    RelDel(RelUnlink(s, id, RelRead(s, ForwardBucket, id)), ForwardBucket, id)

\* Replace that overwrites the forward entry and keeps the backward sets of the
\* related ids no longer present
RelTxReplaceNoUnlink(s, id, relatedIds) ==
    LET old  == RelRead(s, ForwardBucket, id)
        new  == Distinct(relatedIds)
        s2   == RelLink(s, id, Outside(new, Members(old)))
    IN  RelPut(s2, ForwardBucket, id, new)

\* RelationStoreTx.Replace: id taken out of the backward sets of the related ids no
\* longer present, merged into those of the newly present ones, and the forward
\* entry overwritten with the new set
RelTxReplace(s, id, relatedIds) ==
    LET old  == RelRead(s, ForwardBucket, id)
        new  == Distinct(relatedIds)
        s1   == RelUnlink(s, id, Outside(old, Members(new)))
        s2   == RelLink(s1, id, Outside(new, Members(old)))
    IN  RelPut(s2, ForwardBucket, id, new)

\* RelationStoreTx.RelatedIDs: the forward set of id
RelTxRelatedIDs(t, id) ==
    [err |-> "nil", ids |-> RelRead(RelStart(t, -1), ForwardBucket, id)]

\* RelationStoreTx.IDs: the backward set of relatedId
RelTxIDs(t, relatedId) ==
    [err |-> "nil", ids |-> RelRead(RelStart(t, -1), BackwardBucket, relatedId)]

\* the keys of a set in the engine's key order
RECURSIVE InKeyOrder(_)
InKeyOrder(keys) ==
    IF keys = {} THEN << >>
    ELSE <<MinKey(keys)>> \o InKeyOrder(keys \ {MinKey(keys)})

\* RelationStoreTx.StreamIDs / StreamRelatedIDs: every key of one index, sent to the
\* channel in the bucket's key order
RelTxStream(t, bucket) ==
    [err |-> "nil",
     ids |-> InKeyOrder({BucketRemoveKey(bucket, key) :
                 key \in {x \in DOMAIN TxnView(t.snap, t.pending) :
                              HasPrefix(x, BucketToPrefix(bucket))}})]

\* the RelationStoreTx operation op run by fn on transaction t
RelTx(op, t, id, relatedIds, failAt) ==
    LET s == RelStart(t, failAt)
    IN  CASE op = "Add"     -> RelTxAdd(s, id, relatedIds)
          [] op = "Replace" -> RelTxReplace(s, id, relatedIds)
          [] op = "Remove"  -> RelTxRemove(s, id, relatedIds)
          [] op = "Delete"  -> RelTxDelete(s, id, relatedIds)

\* relationStore running each write of the operation in an Update of its own
RelationCommitPerWrite(content, s, engineOk) ==
    IF engineOk THEN CommitWrites(content, s.t.pending) ELSE content

\* the committed content once the one r.db.Update of a relationStore operation has
\* returned, fn having left the transaction as s
RelationCommit(content, s, engineOk) ==
    IF Commits(s.t, s.err # "nil", engineOk)
    THEN CommitWrites(content, s.t.pending)
    ELSE content

\* relationStore.RelatedIDs / relationStore.IDs called with a background context on
\* committed content: r.db.View around the RelationStoreTx read
RelationRelatedIDsOf(content, id) ==
    RelTxRelatedIDs(NewFrame(FALSE, Background, content, << >>, << >>), id)

RelationIDsOf(content, relatedId) ==
    RelTxIDs(NewFrame(FALSE, Background, content, << >>, << >>), relatedId)

\* the committed content once relationStore operation op, called with a background
\* context on content, has run to its end and committed
RelAfter(content, op, id, relatedIds) ==
    RelationCommit(content,
                   RelTx(op, NewFrame(TRUE, Background, content, << >>, << >>),
                         id, relatedIds, -1),
                   TRUE)

\* what the database holds when the relation store is created on it: nothing, or
\* what an earlier run left after Add("j", ["r"])
RelStores == {<< >>, RelAfter(<< >>, "Add", <<106>>, <<(<<114>>)>>)}

\* the context a relationStore operation is called with
RelCtx(marked) == IF marked THEN SetOpenState(Background) ELSE Background

\* relationStore.Add / Replace / Remove / Delete: r.db.Update around the
\* RelationStoreTx operation
RelationMutate(p, op, id, relatedIds, marked, failAt, engineOk) ==
    /\ nops < MaxRelOps
    /\ stack[p] = << >>
    /\ (marked \/ failAt # -1) => engineOk
    /\ marked => failAt = -1
    /\ LET ctx == RelCtx(marked)
           t   == NewFrame(TRUE, ctx, store, lstore, lbuckets)
           s   == RelTx(op, t, id, relatedIds, failAt)
       IN  IF IsTransactionOpen(ctx)
           THEN /\ ret' = [ret EXCEPT ![p] = Refused(TRUE, ctx)]
                /\ res' = [res EXCEPT ![p] =
                       [NoRes EXCEPT !.op = op, !.key = id, !.related = relatedIds,
                                     !.err = "TransactionAlreadyOpenError"]]
                /\ UNCHANGED store
           ELSE /\ s.err = "nil" => failAt = -1
                /\ store' = RelationCommit(store, s, engineOk)
                /\ ret' = [ret EXCEPT ![p] =
                       [kind |-> "Update", ctxOpen |-> ctx.state # "nil",
                        err |-> ReturnedErr(t, s.err # "nil", engineOk),
                        fnInvoked |-> TRUE, fnErr |-> s.err # "nil",
                        engineOk |-> engineOk,
                        chain |-> ReturnedChain(t, s.err # "nil", engineOk)]]
                /\ res' = [res EXCEPT ![p] =
                       [NoRes EXCEPT !.op = op, !.key = id, !.related = relatedIds,
                                     !.old = RelationRelatedIDsOf(store, id).ids,
                                     !.err = ReturnedErr(t, s.err # "nil", engineOk),
                                     !.written = s.written]]
    /\ ncalls' = ncalls + 1
    /\ nops' = nops + 1
    /\ UNCHANGED <<lstore, lbuckets, stack, iter, codec, mem>>

RelationAdd(p, id, relatedIds, marked, failAt, engineOk) ==
    RelationMutate(p, "Add", id, relatedIds, marked, failAt, engineOk)

RelationReplace(p, id, relatedIds, marked, failAt, engineOk) ==
    RelationMutate(p, "Replace", id, relatedIds, marked, failAt, engineOk)

RelationRemove(p, id, relatedIds, marked, failAt, engineOk) ==
    RelationMutate(p, "Remove", id, relatedIds, marked, failAt, engineOk)

RelationDelete(p, id, marked, failAt, engineOk) ==
    RelationMutate(p, "Delete", id, << >>, marked, failAt, engineOk)

\* what the read operation op of relationStore finds in content
RelationQueryOf(content, op, key) ==
    LET t == NewFrame(FALSE, Background, content, << >>, << >>)
    IN  CASE op = "RelatedIDs" -> RelTxRelatedIDs(t, key)
          [] op = "IDs" -> RelTxIDs(t, key)
          [] op = "StreamIDs" -> RelTxStream(t, ForwardBucket)
          [] OTHER -> RelTxStream(t, BackwardBucket)

\* relationStore.RelatedIDs / IDs / StreamIDs / StreamRelatedIDs that run the
\* RelationStoreTx operation without going through r.db.View
RelationQueryUnchecked(p, op, key, marked) ==
    /\ nops < MaxRelOps
    /\ stack[p] = << >>
    /\ ret' = [ret EXCEPT ![p] =
           [kind |-> "View", ctxOpen |-> RelCtx(marked).state # "nil", err |-> "nil",
            fnInvoked |-> TRUE, fnErr |-> FALSE, engineOk |-> TRUE, chain |-> << >>]]
    /\ res' = [res EXCEPT ![p] =
           [NoRes EXCEPT !.op = op, !.key = key,
                         !.err = RelationQueryOf(store, op, key).err,
                         !.ids = RelationQueryOf(store, op, key).ids]]
    /\ ncalls' = ncalls + 1
    /\ nops' = nops + 1
    /\ UNCHANGED <<store, lstore, lbuckets, stack, iter, codec, mem>>

\* relationStore.RelatedIDs / IDs / StreamIDs / StreamRelatedIDs: r.db.View around
\* the RelationStoreTx operation
RelationQuery(p, op, key, marked) ==
    /\ nops < MaxRelOps
    /\ stack[p] = << >>
    /\ LET ctx == RelCtx(marked)
       IN  IF IsTransactionOpen(ctx)
           THEN /\ ret' = [ret EXCEPT ![p] = Refused(FALSE, ctx)]
                /\ res' = [res EXCEPT ![p] =
                       [NoRes EXCEPT !.op = op, !.key = key,
                                     !.err = "TransactionAlreadyOpenError"]]
           ELSE /\ ret' = [ret EXCEPT ![p] =
                       [kind |-> "View", ctxOpen |-> ctx.state # "nil", err |-> "nil",
                        fnInvoked |-> TRUE, fnErr |-> FALSE, engineOk |-> TRUE,
                        chain |-> << >>]]
                /\ res' = [res EXCEPT ![p] =
                       [NoRes EXCEPT !.op = op, !.key = key,
                                     !.err = RelationQueryOf(store, op, key).err,
                                     !.ids = RelationQueryOf(store, op, key).ids]]
    /\ ncalls' = ncalls + 1
    /\ nops' = nops + 1
    /\ UNCHANGED <<store, lstore, lbuckets, stack, iter, codec, mem>>

\* relationStore.RelatedIDs(id)
RelationRelatedIDs(p, id, marked) == RelationQuery(p, "RelatedIDs", id, marked)

\* relationStore.IDs(relatedId)
RelationIDs(p, relatedId, marked) == RelationQuery(p, "IDs", relatedId, marked)

\* relationStore.StreamIDs(ch)
RelationStreamIDs(p, marked) == RelationQuery(p, "StreamIDs", << >>, marked)

\* relationStore.StreamRelatedIDs(ch)
RelationStreamRelatedIDs(p, marked) ==
    RelationQuery(p, "StreamRelatedIDs", << >>, marked)

RelInit ==
    /\ store \in RelStores
    /\ lstore = LFromStore(store)
    /\ lbuckets = BFromStore(store)
    /\ stack = [p \in Procs |-> << >>]
    /\ ret = [p \in Procs |-> NoRet]
    /\ res = [p \in Procs |-> NoRes]
    /\ iter = [p \in Procs |-> NoIterator]
    /\ ncalls = 0
    /\ nops = 0
    /\ codec = NoCodec
    /\ mem = NoMem

RelNext ==
    \/ \E p \in Callers, id \in RelIDs, relatedIds \in RelLists, marked \in BOOLEAN,
          failAt \in -1..MaxFailAt, engineOk \in BOOLEAN :
            RelationAdd(p, id, relatedIds, marked, failAt, engineOk)
    \/ \E p \in Callers, id \in RelIDs, relatedIds \in RelLists, marked \in BOOLEAN,
          failAt \in -1..MaxFailAt, engineOk \in BOOLEAN :
            RelationReplace(p, id, relatedIds, marked, failAt, engineOk)
    \/ \E p \in Callers, id \in RelIDs, relatedIds \in RelLists, marked \in BOOLEAN,
          failAt \in -1..MaxFailAt, engineOk \in BOOLEAN :
            RelationRemove(p, id, relatedIds, marked, failAt, engineOk)
    \/ \E p \in Callers, id \in RelIDs, marked \in BOOLEAN,
          failAt \in -1..MaxFailAt, engineOk \in BOOLEAN :
            RelationDelete(p, id, marked, failAt, engineOk)
    \/ \E p \in Callers, id \in RelIDs, marked \in BOOLEAN :
            RelationRelatedIDs(p, id, marked)
    \/ \E p \in Callers, relatedId \in RelRelatedIDs, marked \in BOOLEAN :
            RelationIDs(p, relatedId, marked)
    \/ \E p \in Callers, marked \in BOOLEAN : RelationStreamIDs(p, marked)
    \/ \E p \in Callers, marked \in BOOLEAN : RelationStreamRelatedIDs(p, marked)

SpecRel == RelInit /\ [][RelNext]_vars

(* ------------------------------------------------------------------ *)
(* The key codec called on its own, as any caller of the package can    *)
(* ------------------------------------------------------------------ *)

\* byte strings of at most n bytes over the delimiter and the letter a
BytesUpTo(n) == UNION {[1..m -> {Delim, 97}] : m \in 0..n}

\* libkv.BucketName values: any byte string, the delimiter not excluded
CodecNames == BytesUpTo(MaxNameLen)

CodecKeys == BytesUpTo(MaxKeyLen)

CodecInit ==
    /\ store = << >>
    /\ lstore = LFromStore(store)
    /\ lbuckets = BFromStore(store)
    /\ stack = [p \in Procs |-> << >>]
    /\ ret = [p \in Procs |-> NoRet]
    /\ res = [p \in Procs |-> NoRes]
    /\ iter = [p \in Procs |-> NoIterator]
    /\ ncalls = 0
    /\ nops = 0
    /\ \E b1 \in CodecNames, k1 \in CodecKeys, b2 \in CodecNames, k2 \in CodecKeys :
           codec = [NoCodec EXCEPT !.stage = "input",
                                   !.b1 = b1, !.k1 = k1, !.b2 = b2, !.k2 = k2]
    /\ mem = NoMem

\* BucketToPrefix(b1), BucketAddKey(b1, k1) and BucketAddKey(b2, k2)
Encode ==
    /\ codec.stage = "input"
    /\ codec' = [codec EXCEPT !.stage = "encoded",
                              !.prefix = BucketToPrefix(codec.b1),
                              !.e1 = BucketAddKey(codec.b1, codec.k1),
                              !.e2 = BucketAddKey(codec.b2, codec.k2)]
    /\ UNCHANGED <<store, lstore, lbuckets, stack, ret, res, iter, ncalls, nops, mem>>

\* BucketRemoveKey on the two engine keys
Decode ==
    /\ codec.stage = "encoded"
    /\ codec' = [codec EXCEPT !.stage = "decoded",
                              !.r1 = BucketRemoveKey(codec.b1, codec.e1),
                              !.r2 = BucketRemoveKey(codec.b2, codec.e2)]
    /\ UNCHANGED <<store, lstore, lbuckets, stack, ret, res, iter, ncalls, nops, mem>>

CodecNext == Encode \/ Decode

SpecCodec == CodecInit /\ [][CodecNext]_vars

(* ------------------------------------------------------------------ *)
(* Goroutines calling with contexts of their own                        *)
(* ------------------------------------------------------------------ *)

\* View/Update refusing a call while another goroutine's transaction is open
GoCallShared(p, update) ==
    IF \E q \in Procs \ {p} : stack[q] # << >>
    THEN /\ ncalls < MaxCalls
         /\ ret' = [ret EXCEPT ![p] = Refused(update, SetOpenState(Background))]
         /\ ncalls' = ncalls + 1
         /\ res' = [res EXCEPT ![p] = NoRes]
         /\ UNCHANGED <<mem, codec, store, lstore, lbuckets, stack, iter, nops>>
    ELSE Call(p, update, FALSE)

\* goroutine p calls badgerdb.Update / badgerdb.View with a context of its own
GoCall(p, update) == Call(p, update, FALSE)

ConcNext ==
    \/ \E p \in Procs, update \in BOOLEAN : GoCall(p, update)
    \/ \E p \in Procs, fnErr \in BOOLEAN, engineOk \in BOOLEAN : End(p, fnErr, engineOk)
    \/ \E p \in Procs, b \in BucketNames, k \in RawKeys, v \in Values : Put(p, b, k, v)
    \/ \E p \in Procs, b \in BucketNames, k \in RawKeys : Get(p, b, k)

SpecConc == Init /\ [][ConcNext]_vars

(* ------------------------------------------------------------------ *)
(* Two Puts into one bucket within one transaction, followed in memory  *)
(* ------------------------------------------------------------------ *)

\* the raw keys of the two Puts
SliceKeys == UNION {[1..m -> {97, 98}] : m \in 1..MaxKeyLen}

\* the array of a bucket name whose slice has spare capacity: the name, then zeroes
NameArray(name, spare) == name \o [i \in 1..spare |-> 0]

\* a read-write transaction is open on the empty store; its fn holds a bucket whose
\* name is a slice with some spare capacity, and two raw keys
SliceInit ==
    /\ store = << >>
    /\ lstore = LFromStore(store)
    /\ lbuckets = BFromStore(store)
    /\ stack = [p \in Procs |-> << >>]
    /\ ret = [p \in Procs |-> NoRet]
    /\ res = [p \in Procs |-> NoRes]
    /\ iter = [p \in Procs |-> NoIterator]
    /\ ncalls = 0
    /\ nops = 0
    /\ codec = NoCodec
    /\ \E name \in BucketNames, spare \in 0..MaxSpare, x \in SliceKeys, y \in SliceKeys :
           mem = [NoMem EXCEPT
                     !.stage = "open",
                     !.heap = <<NameArray(name, spare)>>,
                     !.bucket = [arr |-> 1, len |-> Len(name), cap |-> Len(name) + spare],
                     !.x = x, !.y = y]

\* bucket.Put(x, <<1>>): k1 := BucketAddKey(bucketName, x), then badgerTx.Set(k1, ...)
PutFirst ==
    /\ mem.stage = "open"
    /\ LET k == BucketAddKeySlice(mem.heap, mem.bucket, mem.x)
       IN  mem' = [mem EXCEPT
                      !.stage = "put1",
                      !.heap = k.heap,
                      !.k1 = k.slice,
                      !.pendingWrites = TxnSetSlice(@, k.heap, k.slice, <<1>>)]
    /\ UNCHANGED <<store, lstore, lbuckets, stack, ret, res, iter, ncalls, nops, codec>>

\* bucket.Put(y, <<2>>): k2 := BucketAddKey(bucketName, y), then badgerTx.Set(k2, ...)
PutSecond ==
    /\ mem.stage = "put1"
    /\ LET k == BucketAddKeySlice(mem.heap, mem.bucket, mem.y)
       IN  mem' = [mem EXCEPT
                      !.stage = "put2",
                      !.heap = k.heap,
                      !.k2 = k.slice,
                      !.pendingWrites = TxnSetSlice(@, k.heap, k.slice, <<2>>)]
    /\ UNCHANGED <<store, lstore, lbuckets, stack, ret, res, iter, ncalls, nops, codec>>

\* fn returns nil and the engine commits the transaction
CommitPuts ==
    /\ mem.stage = "put2"
    /\ store' \in CommitSlices(mem.heap, mem.pendingWrites)
    /\ mem' = [mem EXCEPT !.stage = "committed"]
    /\ UNCHANGED <<lstore, lbuckets, stack, ret, res, iter, ncalls, nops, codec>>

SliceNext == PutFirst \/ PutSecond \/ CommitPuts

SpecSlices == SliceInit /\ [][SliceNext]_vars

(* ------------------------------------------------------------------ *)
(* Bucket lifecycle                                                     *)
(* ------------------------------------------------------------------ *)

\* p's innermost fn can issue one more transaction operation in SpecBuckets
CanBucketOp(p) == stack[p] # << >> /\ nops < MaxBucketOps

\* what fn sees of the transaction operation op on bucket b of transaction t
Returned(op, b, t, r) ==
    [NoRes EXCEPT !.op = op, !.bucket = b, !.err = r.err, !.existed = t.lbuckets[b]]

\* transaction t once a bucket operation that returned r has made bucket b exist
Created(t, b, r) ==
    IF r.err = "nil" /\ t.update
    THEN [t EXCEPT !.pending = r.pending,
                   !.lbuckets = [@ EXCEPT ![b] = TRUE],
                   !.btouched = @ \cup {b}]
    ELSE t

\* tx.CreateBucket(b)
CreateBucket(p, b) ==
    /\ CanBucketOp(p)
    /\ Step(p, Created(Top(p), b, TxCreateBucket(Top(p), b)))
    /\ res' = [res EXCEPT ![p] =
           Returned("CreateBucket", b, Top(p), TxCreateBucket(Top(p), b))]
    /\ UNCHANGED <<mem, codec, store, lstore, lbuckets, ret, iter, ncalls>>

\* tx.CreateBucketIfNotExists(b)
CreateBucketIfNotExists(p, b) ==
    /\ CanBucketOp(p)
    /\ Step(p, Created(Top(p), b, TxCreateBucketIfNotExists(Top(p), b)))
    /\ res' = [res EXCEPT ![p] =
           Returned("CreateBucketIfNotExists", b, Top(p),
                    TxCreateBucketIfNotExists(Top(p), b))]
    /\ UNCHANGED <<mem, codec, store, lstore, lbuckets, ret, iter, ncalls>>

\* tx.Bucket(b)
Bucket(p, b) ==
    /\ CanBucketOp(p)
    /\ Step(p, Top(p))
    /\ res' = [res EXCEPT ![p] = Returned("Bucket", b, Top(p), TxBucket(Top(p), b))]
    /\ UNCHANGED <<mem, codec, store, lstore, lbuckets, ret, iter, ncalls>>

\* tx.ListBucketNames()
ListBucketNames(p) ==
    /\ CanBucketOp(p)
    /\ Step(p, Top(p))
    /\ res' = [res EXCEPT ![p] =
           [NoRes EXCEPT !.op = "ListBucketNames", !.names = TxListBucketNames(Top(p))]]
    /\ UNCHANGED <<mem, codec, store, lstore, lbuckets, ret, iter, ncalls>>

BucketsNext ==
    \/ \E p \in Callers, update \in BOOLEAN : Call(p, update, FALSE)
    \/ \E p \in Callers, fnErr \in BOOLEAN, engineOk \in BOOLEAN : End(p, fnErr, engineOk)
    \/ \E p \in Callers, b \in BucketNames, k \in RawKeys, v \in Values : Put(p, b, k, v)
    \/ \E p \in Callers, b \in BucketNames : CreateBucket(p, b)
    \/ \E p \in Callers, b \in BucketNames : CreateBucketIfNotExists(p, b)
    \/ \E p \in Callers, b \in BucketNames : Bucket(p, b)
    \/ \E p \in Callers, b \in BucketNames : DeleteBucket(p, b)
    \/ \E p \in Callers : ListBucketNames(p)

SpecBuckets == Init /\ [][BucketsNext]_vars

(* ------------------------------------------------------------------ *)
(* Iterators                                                            *)
(* ------------------------------------------------------------------ *)

\* p's innermost fn holds an iterator and can move it once more
CanMove(p) == stack[p] # << >> /\ iter[p].open /\ nops < MaxIterOps

\* what fn sees of the iterator i after the move op: Valid(), and Item() if valid
Moved(op, key, i) ==
    [NoRes EXCEPT !.op = op, !.bucket = i.bucketName, !.key = key,
                  !.valid = IterValid(i),
                  !.item = IF IterValid(i) THEN IterItem(i) ELSE NoItem]

\* bucket.Iterator() / bucket.IteratorReverse() on tx.Bucket(b)
OpenIterator(p, b, reverse) ==
    /\ stack[p] # << >> /\ nops < MaxIterOps
    /\ iter' = [iter EXCEPT ![p] = NewIterator(Top(p), b, reverse)]
    /\ res' = [res EXCEPT ![p] = NoRes]
    /\ nops' = nops + 1
    /\ UNCHANGED <<mem, codec, store, lstore, lbuckets, stack, ret, ncalls>>

\* iterator.Rewind(), then Valid() and Item()
Rewind(p) ==
    /\ CanMove(p)
    /\ iter' = [iter EXCEPT ![p] = IterRewind(@)]
    /\ res' = [res EXCEPT ![p] = Moved("Rewind", << >>, IterRewind(iter[p]))]
    /\ nops' = nops + 1
    /\ UNCHANGED <<mem, codec, store, lstore, lbuckets, stack, ret, ncalls>>

\* iterator.Seek(k), then Valid() and Item()
Seek(p, k) ==
    /\ CanMove(p)
    /\ iter' = [iter EXCEPT ![p] = IterSeek(@, k)]
    /\ res' = [res EXCEPT ![p] = Moved("Seek", k, IterSeek(iter[p], k))]
    /\ nops' = nops + 1
    /\ UNCHANGED <<mem, codec, store, lstore, lbuckets, stack, ret, ncalls>>

\* iterator.Next() on a cursor that stands on an entry, then Valid() and Item()
IteratorNext(p) ==
    /\ CanMove(p)
    /\ iter[p].pos.valid
    /\ iter' = [iter EXCEPT ![p] = IterNext(@)]
    /\ res' = [res EXCEPT ![p] = Moved("Next", << >>, IterNext(iter[p]))]
    /\ nops' = nops + 1
    /\ UNCHANGED <<mem, codec, store, lstore, lbuckets, stack, ret, ncalls>>

\* what the database may hold when it is opened: any keys of the two buckets, those
\* of "a" with the value 1 and those of "ab" with the empty value
IterStores ==
    {[key \in keys |-> IF HasPrefix(key, BucketToPrefix(<<97>>)) THEN <<1>> ELSE << >>] :
        keys \in SUBSET EngineKeys}

IterInit ==
    /\ store \in IterStores
    /\ lstore = LFromStore(store)
    /\ lbuckets = BFromStore(store)
    /\ stack = [p \in Procs |-> << >>]
    /\ ret = [p \in Procs |-> NoRet]
    /\ res = [p \in Procs |-> NoRes]
    /\ iter = [p \in Procs |-> NoIterator]
    /\ ncalls = 0
    /\ nops = 0
    /\ codec = NoCodec
    /\ mem = NoMem

IterNextStep ==
    \/ \E p \in Callers, update \in BOOLEAN : Call(p, update, FALSE)
    \/ \E p \in Callers, fnErr \in BOOLEAN, engineOk \in BOOLEAN : End(p, fnErr, engineOk)
    \/ \E p \in Callers, b \in BucketNames, k \in RawKeys, v \in Values : Put(p, b, k, v)
    \/ \E p \in Callers, b \in BucketNames, k \in RawKeys : Get(p, b, k)
    \/ \E p \in Callers, b \in BucketNames, reverse \in BOOLEAN : OpenIterator(p, b, reverse)
    \/ \E p \in Callers : Rewind(p)
    \/ \E p \in Callers, k \in RawKeys : Seek(p, k)
    \/ \E p \in Callers : IteratorNext(p)

SpecIter == IterInit /\ [][IterNextStep]_vars

(* ------------------------------------------------------------------ *)
(* Properties                                                           *)
(* ------------------------------------------------------------------ *)

\* every open transaction, of every goroutine
Frames == UNION {{stack[p][i] : i \in DOMAIN stack[p]} : p \in Procs}

\* p's step returns from the Update call of its innermost transaction
ReturnsUpdate(p) ==
    /\ stack[p] # << >>
    /\ Len(stack'[p]) < Len(stack[p])
    /\ Top(p).update

\* post is pre with every engine write of pending applied and nothing else changed
WritesApplied(pre, post, pending) ==
    /\ \A key \in DOMAIN pending :
          IF pending[key].deleted
          THEN key \notin DOMAIN post
          ELSE key \in DOMAIN post /\ post[key] = pending[key].value
    /\ \A key \in ((DOMAIN pre) \cup (DOMAIN post)) \ (DOMAIN pending) :
          key \in DOMAIN pre /\ key \in DOMAIN post /\ post[key] = pre[key]

\* post holds what the bucket operations t issued asked for
OpsApplied(post, t) ==
    \A x \in t.touched :
        LET key == BucketAddKey(x[1], x[2])
        IN  /\ t.lview[x].st = "put" => key \in DOMAIN post /\ post[key] = t.lview[x].val
            /\ t.lview[x].st = "deleted" => key \notin DOMAIN post

C2_NestedRejected ==
    /\ [](\A p \in Procs :
             /\ \A i \in DOMAIN stack[p] : stack[p][i].callCtx.state = "nil"
             /\ ret[p].ctxOpen =>
                    /\ ret[p].err = "TransactionAlreadyOpenError"
                    /\ ~ret[p].fnInvoked)
    /\ [][ncalls' # ncalls =>
             \E p \in Procs :
                 \/ /\ Len(stack'[p]) = Len(stack[p]) + 1
                    /\ stack'[p][Len(stack'[p])].callCtx.state = "nil"
                    /\ ret'[p] = ret[p]
                 \/ /\ stack' = stack /\ store' = store /\ lstore' = lstore
                    /\ ret'[p].err = "TransactionAlreadyOpenError"
                    /\ ret'[p].ctxOpen
                    /\ ~ret'[p].fnInvoked]_vars

\* C2 witness: a call with fn's context was refused while the enclosing call is open
C2_Witness ==
    /\ stack[1] # << >>
    /\ ret[1].err = "TransactionAlreadyOpenError"
    /\ ret[1].ctxOpen
    /\ ~ret[1].fnInvoked

\* what Get(x) on transaction t hands back
GetOf(t, x) == BucketGet(t, x[1], x[2])

ViewOf(t) == TxnView(t.snap, t.pending)

\* transaction t once it has issued Delete(x)
AfterDelete(t, x) == [t EXCEPT !.pending = BucketDelete(t, x[1], x[2]).pending]

\* transaction t once it has issued Put(x, v)
AfterPut(t, x, v) == [t EXCEPT !.pending = BucketPut(t, x[1], x[2], v).pending]

AddressedKey(p) == BucketAddKey(res[p].bucket, res[p].item.key)

\* C6: every item handed out by Get or by an iterator has Exists() true exactly when
\* its key is present in its bucket as the transaction reads it; a key stored with
\* the empty value yields an empty byte sequence, an absent key yields nil
C6_ExistsIffPresent ==
    \A p \in Procs :
        /\ res[p].op = "Get" =>
               /\ res[p].item.exists <=> AddressedKey(p) \in DOMAIN ViewOf(Top(p))
               /\ res[p].item.exists => res[p].item.value.bytes = ViewOf(Top(p))[AddressedKey(p)]
               /\ ~res[p].item.exists => res[p].item.value = NilValue
        /\ res[p].valid =>
               /\ res[p].item.exists <=> AddressedKey(p) \in DOMAIN iter[p].view
               /\ res[p].item.exists => res[p].item.value.bytes = iter[p].view[AddressedKey(p)]

\* how often key is among the keys of items
Occurs(items, key) == Cardinality({n \in DOMAIN items : items[n].key = key})

\* C7: once Put(k, v) was the last write to k in bucket B, Get(k) yields v and a full
\* iteration of B, forward or reverse, yields k exactly once; Put(k, v) leaves the
\* result of Get of every other key of B as it was
C7_PutUpsert ==
    /\ \A t \in Frames, x \in LKeys :
           (x \in t.touched /\ t.lview[x].st = "put") =>
               /\ GetOf(t, x).item.exists
               /\ GetOf(t, x).item.value.bytes = t.lview[x].val
               /\ \A reverse \in BOOLEAN : Occurs(FullIteration(t, x[1], reverse), x[2]) = 1
    /\ \A t \in Frames, x \in LKeys, y \in LKeys, v \in Values :
           (t.update /\ x[1] = y[1] /\ x # y) => GetOf(AfterPut(t, x, v), y) = GetOf(t, y)

\* C9: an iterator over bucket B1 reports Valid() true only while its cursor stands on
\* an engine key that begins with B1 followed by the delimiter, and every item it
\* yields is an entry of B1
C9_IteratorWithinPrefix ==
    \A p \in Procs :
        /\ (iter[p].open /\ IterValid(iter[p])) =>
               HasPrefix(iter[p].pos.key, BucketToPrefix(iter[p].bucketName))
        /\ res[p].valid =>
               /\ iter[p].pos.key = AddressedKey(p)
               /\ AddressedKey(p) \in DOMAIN iter[p].view

\* the raw keys bucket b holds in view
BucketKeys(view, b) ==
    {BucketRemoveKey(b, key) : key \in {e \in DOMAIN view : HasPrefix(e, BucketToPrefix(b))}}

\* the first of a non-empty set of raw keys in the direction of an iterator
FirstKey(keys, reverse) == IF reverse THEN MaxKey(keys) ELSE MinKey(keys)

\* the raw keys of keys that an iterator at or beyond raw key k still has before it
FromKey(keys, reverse, k) ==
    IF reverse THEN {o \in keys : KeyLessEq(o, k)} ELSE {o \in keys : KeyLessEq(k, o)}

\* C11: after Rewind() on an iterator of a bucket that holds at least one key, whatever
\* the other buckets hold, Valid() is true and Item().Key() is the smallest key of the
\* bucket for a forward iterator and the largest for a reverse iterator
C11_RewindFirstKey ==
    \A p \in Procs :
        (/\ res[p].op = "Rewind"
         /\ BucketKeys(iter[p].view, iter[p].bucketName) # {}) =>
            /\ res[p].valid
            /\ res[p].item.key =
                   FirstKey(BucketKeys(iter[p].view, iter[p].bucketName), iter[p].reverse)

\* the items of the raw keys keys of bucket b in view, in the direction of an iterator
RECURSIVE ItemsInOrder(_, _, _, _)
ItemsInOrder(view, b, keys, reverse) ==
    IF keys = {} THEN << >>
    ELSE LET k == FirstKey(keys, reverse)
         IN  <<[key |-> k, bytes |-> view[BucketAddKey(b, k)]]>>
                 \o ItemsInOrder(view, b, keys \ {k}, reverse)

\* the key and the value bytes of every item of items, in order
KeysAndBytes(items) ==
    [n \in DOMAIN items |-> [key |-> items[n].key, bytes |-> items[n].value.bytes]]

\* C12: Rewind() followed by Item()/Next() while Valid() is true visits every key of the
\* bucket exactly once, with its stored value, in ascending order for Iterator() and in
\* descending order for IteratorReverse(), and ends with Valid() false
C12_FullIterationInOrder ==
    \A t \in Frames, b \in BucketNames, reverse \in BOOLEAN :
        KeysAndBytes(FullIteration(t, b, reverse)) =
            ItemsInOrder(ViewOf(t), b, BucketKeys(ViewOf(t), b), reverse)

\* C13: Seek(k) positions a forward iterator at the smallest key of the bucket >= k and
\* a reverse iterator at the largest key <= k, Valid() is false when the bucket has no
\* such key, and a following Next() moves to the adjacent key of the bucket in the
\* iterator's direction, or to Valid() false when there is none
C13_SeekAndNext ==
    \A p \in Procs :
        LET i == iter[p]
            keys == BucketKeys(i.view, i.bucketName)
        IN  /\ res[p].op = "Seek" =>
                   IF FromKey(keys, i.reverse, res[p].key) = {}
                   THEN ~res[p].valid
                   ELSE /\ res[p].valid
                        /\ res[p].item.key =
                               FirstKey(FromKey(keys, i.reverse, res[p].key), i.reverse)
            /\ (res[p].op = "Seek" /\ res[p].valid /\ res[p].item.key \in keys) =>
                   LET rest == FromKey(keys, i.reverse, res[p].item.key) \ {res[p].item.key}
                   IN  IF rest = {}
                       THEN ~IterValid(IterNext(i))
                       ELSE /\ IterValid(IterNext(i))
                            /\ IterItem(IterNext(i)).key = FirstKey(rest, i.reverse)

\* an iterator of bucket x[1] created on transaction t and moved by Seek(x[2])
SeekOf(t, x, reverse) == IterSeek(NewIterator(t, x[1], reverse), x[2])

KeysUnder(t, b) == {key \in DOMAIN ViewOf(t) : HasPrefix(key, BucketToPrefix(b))}

\* C15: Tx.CreateBucket(name) fails with AlreadyExistsError when the bucket already
\* exists, a bucket created earlier in the same transaction included, and succeeds
\* otherwise
C15_CreateBucketExclusive ==
    \A p \in Procs :
        res[p].op = "CreateBucket" =>
            res[p].err = IF res[p].existed THEN "AlreadyExistsError" ELSE "nil"

\* C16: Tx.Bucket(name) fails with NotFoundError when no such bucket exists, and
\* returns a bucket and a nil error when the bucket was created and not deleted
C16_BucketNotFound ==
    \A p \in Procs :
        res[p].op = "Bucket" =>
            res[p].err = IF res[p].existed THEN "nil" ELSE "NotFoundError"

\* C17: Tx.CreateBucketIfNotExists(name) is an idempotent get-or-create: every call
\* succeeds, whether or not the bucket exists and however often it was called before;
\* afterwards Tx.Bucket(name) succeeds, and the keys and values the transaction reads,
\* those of the bucket included, are what they were before the call
C17_CreateIfNotExistsIdempotent ==
    [][\A p \in Procs :
           (/\ stack[p] # << >>
            /\ Len(stack'[p]) = Len(stack[p])
            /\ nops' = nops + 1
            /\ res'[p].op = "CreateBucketIfNotExists")
           => LET before == Top(p)
                  after  == stack'[p][Len(stack'[p])]
              IN  /\ res'[p].err = "nil"
                  /\ ViewOf(after) = ViewOf(before)
                  /\ TxBucket(after, res'[p].bucket).err = "nil"
                  /\ TxCreateBucketIfNotExists(after, res'[p].bucket).err = "nil"]_vars

\* CreateBucketIfNotExists has returned for a bucket that holds keys and that an
\* earlier call of the same update transaction had already created
C17_Witness ==
    \E p \in Procs :
        /\ stack[p] # << >>
        /\ res[p].op = "CreateBucketIfNotExists"
        /\ res[p].existed
        /\ res[p].err = "nil"
        /\ res[p].bucket \in Top(p).btouched
        /\ KeysUnder(Top(p), res[p].bucket) # {}

\* C18: Tx.DeleteBucket(name) on a bucket that does not exist fails with
\* NotFoundError and changes nothing
C18_DeleteBucketNotFound ==
    [][\A p \in Procs :
           (/\ stack[p] # << >>
            /\ Len(stack'[p]) = Len(stack[p])
            /\ nops' = nops + 1
            /\ res'[p].op = "DeleteBucket"
            /\ ~res'[p].existed)
           => /\ res'[p].err = "NotFoundError"
              /\ ViewOf(stack'[p][Len(stack'[p])]) = ViewOf(Top(p))]_vars

\* C19: after DeleteBucket(B) on an existing bucket B in an update transaction, the
\* call has returned without error, no key under B's prefix is readable by Get or by
\* iteration, Tx.Bucket(B) fails and ListBucketNames does not list B
C19_DeleteBucketComplete ==
    \A p \in Procs :
        (/\ stack[p] # << >>
         /\ Top(p).update
         /\ res[p].op = "DeleteBucket"
         /\ res[p].existed)
        => LET t == Top(p)
               b == res[p].bucket
           IN  /\ res[p].err = "nil"
               /\ \A k \in RawKeys : ~GetOf(t, <<b, k>>).item.exists
               /\ FullIteration(t, b, FALSE) = << >>
               /\ FullIteration(t, b, TRUE) = << >>
               /\ TxBucket(t, b).err = "NotFoundError"
               /\ b \notin TxListBucketNames(t)

\* C20: after any sequence of CreateBucket, CreateBucketIfNotExists and DeleteBucket
\* calls, with keys put only into buckets that exist, ListBucketNames returns exactly
\* the names of the buckets that exist
C20_ListBucketNamesExact ==
    \A p \in Procs :
        (/\ stack[p] # << >>
         /\ res[p].op = "ListBucketNames"
         /\ \A b \in BucketNames : KeysUnder(Top(p), b) # {} => Top(p).lbuckets[b])
        => res[p].names = {b \in BucketNames : Top(p).lbuckets[b]}


\* C21: IsTransactionOpen is false for a context that never went through View or
\* Update, and true for the context that Update or View hands to fn, in every state
\* in which that fn is running
C21_MarkerOnFnContext ==
    /\ ~IsTransactionOpen(Background)
    /\ \A t \in Frames : IsTransactionOpen(t.ctx)

\* an fn that was handed its context by a call made with an unmarked one has issued
\* an operation and is still running
C21_Witness ==
    \E p \in Procs :
        /\ stack[p] # << >>
        /\ nops > 0
        /\ ~IsTransactionOpen(Top(p).callCtx)
        /\ IsTransactionOpen(Top(p).ctx)


\* C22: the single-open-transaction rule is per context, not global: when goroutines
\* call View/Update with contexts of their own, in every interleaving every call is
\* let in and none returns TransactionAlreadyOpenError, whatever transactions other
\* goroutines hold open
C22_RulePerContext ==
    /\ [](\A p \in Procs : ret[p].err # "TransactionAlreadyOpenError")
    /\ [][ncalls' # ncalls =>
             \E p \in Procs :
                 /\ Len(stack'[p]) = Len(stack[p]) + 1
                 /\ IsTransactionOpen(stack'[p][Len(stack'[p])].ctx)
                 /\ ret'[p] = ret[p]]_vars

\* two goroutines hold transactions open at once, one of them read-write, and an
\* operation has run
C22_Witness ==
    /\ stack[1] # << >>
    /\ stack[2] # << >>
    /\ \E p \in Procs : Top(p).update
    /\ nops > 0
    /\ \A p \in Procs : ret[p].err = "nil"


\* x is the bytes of a followed by the bytes of b
IsConcat(x, a, b) ==
    /\ Len(x) = Len(a) + Len(b)
    /\ \A i \in 1..Len(a) : x[i] = a[i]
    /\ \A i \in 1..Len(b) : x[Len(a) + i] = b[i]

\* C29: for every bucket name b and raw key k, BucketToPrefix(b) is b followed by
\* '_', BucketAddKey(b, k) is b, '_' and k in this order, and BucketRemoveKey(b, .)
\* gives k back from that engine key
C29_CodecLayoutRoundTrip ==
    /\ codec.stage \in {"encoded", "decoded"} =>
           /\ IsConcat(codec.prefix, codec.b1, <<95>>)
           /\ IsConcat(codec.e1, codec.prefix, codec.k1)
           /\ IsConcat(codec.e2, codec.b2 \o <<95>>, codec.k2)
    /\ codec.stage = "decoded" => codec.r1 = codec.k1 /\ codec.r2 = codec.k2

\* the codec has encoded and decoded a non-empty key under a bucket name that holds
\* the delimiter byte
C29_Witness ==
    /\ codec.stage = "decoded"
    /\ \E i \in 1..Len(codec.b1) : codec.b1[i] = Delim
    /\ codec.k1 # << >>
    /\ codec.r1 = codec.k1

\* C30: the engine-key encoding is one-to-one: equal engine keys come from equal
\* bucket names and equal raw keys
C30_EncodingInjective ==
    (codec.stage \in {"encoded", "decoded"} /\ codec.e1 = codec.e2)
        => (codec.b1 = codec.b2 /\ codec.k1 = codec.k2)


\* the related ids RelatedIDs(id) returns on content, and the ids IDs(r) returns
Fwd(content, id) == Members(RelationRelatedIDsOf(content, id).ids)

Bwd(content, r) == Members(RelationIDsOf(content, r).ids)

\* no member of list seq is repeated
NoRepeat(seq) == \A i, j \in DOMAIN seq : seq[i] = seq[j] => i = j

\* the step is a relationStore operation op of the caller that returned nil
RelDone(op) ==
    /\ nops' = nops + 1
    /\ res'[1].op = op
    /\ res'[1].err = "nil"

\* C23: at every point between RelationStore calls, RelatedIDs(id) contains
\* relatedId if and only if IDs(relatedId) contains id, for every id and relatedId
C23_BidirectionalConsistency ==
    \A id \in RelIDs, r \in RelRelatedIDs :
        r \in Fwd(store, id) <=> id \in Bwd(store, r)

\* a Delete has returned nil for an id that had related ids, while the other id
\* still has an association
C23_Witness ==
    /\ res[1].op = "Delete"
    /\ res[1].err = "nil"
    /\ res[1].old # << >>
    /\ \E id \in RelIDs, r \in RelRelatedIDs : r \in Fwd(store, id) /\ id \in Bwd(store, r)

\* C24: every mutating RelationStore operation runs in exactly one DB.Update: when
\* it returns an error, a failure after some of its writes included, neither index
\* reflects any part of the change
C24_RelationAtomic ==
    [][(nops' = nops + 1 /\ res'[1].op \in {"Add", "Replace", "Remove", "Delete"})
       => /\ ncalls' = ncalls + 1
          /\ ret'[1].err = res'[1].err
          /\ res'[1].err # "nil" =>
                 /\ store' = store
                 /\ \A id \in RelIDs :
                        RelationRelatedIDsOf(store', id) = RelationRelatedIDsOf(store, id)
                 /\ \A r \in RelRelatedIDs :
                        RelationIDsOf(store', r) = RelationIDsOf(store, r)]_vars

\* an Add on a store that holds associations has failed after two of its writes
C24_Witness ==
    /\ res[1].op = "Add"
    /\ res[1].err # "nil"
    /\ res[1].written >= 2
    /\ store # << >>


\* C25: after Replace(id, S), RelatedIDs(id) is S as a set, IDs(r) contains id
\* exactly for the r in S, also when the old and the new set are disjoint, and a
\* second Replace(id, S) leaves what RelatedIDs and IDs return unchanged, with no
\* id or related id repeated
C25_ReplaceExactIdempotent ==
    [][RelDone("Replace") =>
           LET id == res'[1].key
               S  == Members(res'[1].related)
               again == RelAfter(store', "Replace", id, res'[1].related)
           IN  /\ Fwd(store', id) = S
               /\ \A r \in RelRelatedIDs : id \in Bwd(store', r) <=> r \in S
               /\ \A x \in RelIDs :
                      /\ NoRepeat(RelationRelatedIDsOf(store', x).ids)
                      /\ RelationRelatedIDsOf(again, x) = RelationRelatedIDsOf(store', x)
               /\ \A r \in RelRelatedIDs :
                      /\ NoRepeat(RelationIDsOf(store', r).ids)
                      /\ RelationIDsOf(again, r) = RelationIDsOf(store', r)]_vars

\* a Replace has returned nil whose new set is not empty and shares no related id
\* with the set it replaced, which was not empty either
C25_Witness ==
    /\ res[1].op = "Replace"
    /\ res[1].err = "nil"
    /\ res[1].old # << >>
    /\ res[1].related # << >>
    /\ Members(res[1].old) \cap Members(res[1].related) = {}
    /\ Fwd(store, res[1].key) = Members(res[1].related)

\* C26: Add(id, R) merges: afterwards RelatedIDs(id) is its previous set united with
\* R, without repetition, IDs(r) is its previous set plus id for each r in R, and
\* the sets of every other id and related id are unchanged
C26_AddMerges ==
    [][RelDone("Add") =>
           LET id == res'[1].key
               R  == Members(res'[1].related)
           IN  /\ Fwd(store', id) = Fwd(store, id) \cup R
               /\ NoRepeat(RelationRelatedIDsOf(store', id).ids)
               /\ \A r \in R :
                      /\ Bwd(store', r) = Bwd(store, r) \cup {id}
                      /\ NoRepeat(RelationIDsOf(store', r).ids)
               /\ \A x \in RelIDs \ {id} :
                      RelationRelatedIDsOf(store', x) = RelationRelatedIDsOf(store, x)
               /\ \A r \in RelRelatedIDs \ R :
                      RelationIDsOf(store', r) = RelationIDsOf(store, r)]_vars

\* an Add has returned nil for an id that had a related id before, with a list that
\* brings a new related id and repeats one
C26_Witness ==
    /\ res[1].op = "Add"
    /\ res[1].err = "nil"
    /\ res[1].old # << >>
    /\ Len(res[1].related) = 2
    /\ \E r \in Members(res[1].related) : r \notin Members(res[1].old)
    /\ Members(res[1].old) \cup Members(res[1].related) = Fwd(store, res[1].key)

\* C27: Remove(id, R) removes exactly the listed associations: afterwards
\* RelatedIDs(id) is its previous set minus R, IDs(r) does not contain id for r in R,
\* the related ids of id not in R remain in both directions, and the associations of
\* other ids are unchanged
C27_RemoveExact ==
    [][RelDone("Remove") =>
           LET id == res'[1].key
               R  == Members(res'[1].related)
           IN  /\ Fwd(store', id) = Fwd(store, id) \ R
               /\ \A r \in R : Bwd(store', r) = Bwd(store, r) \ {id}
               /\ \A r \in RelRelatedIDs \ R :
                      /\ r \in Fwd(store, id) => r \in Fwd(store', id) /\ id \in Bwd(store', r)
                      /\ RelationIDsOf(store', r) = RelationIDsOf(store, r)
               /\ \A x \in RelIDs \ {id} :
                      RelationRelatedIDsOf(store', x) = RelationRelatedIDsOf(store, x)]_vars

\* a Remove has returned nil that took one of two related ids away from an id
C27_Witness ==
    /\ res[1].op = "Remove"
    /\ res[1].err = "nil"
    /\ Len(res[1].old) = 2
    /\ Len(res[1].related) = 1
    /\ Fwd(store, res[1].key) = Members(res[1].old) \ Members(res[1].related)
    /\ Fwd(store, res[1].key) # {}

\* C28: after Delete(id), RelatedIDs(id) returns the empty list and no error, no
\* IDs(r) contains id, and the associations of every other id are unchanged
C28_DeleteRemovesId ==
    [][RelDone("Delete") =>
           LET id == res'[1].key
           IN  /\ RelationRelatedIDsOf(store', id) = [err |-> "nil", ids |-> << >>]
               /\ \A r \in RelRelatedIDs : Bwd(store', r) = Bwd(store, r) \ {id}
               /\ \A x \in RelIDs \ {id} :
                      RelationRelatedIDsOf(store', x) = RelationRelatedIDsOf(store, x)]_vars

\* a Delete has returned nil for an id that had related ids, one of them shared with
\* the other id, which keeps it
C28_Witness ==
    /\ res[1].op = "Delete"
    /\ res[1].err = "nil"
    /\ res[1].old # << >>
    /\ Fwd(store, res[1].key) = {}
    /\ \E x \in RelIDs \ {res[1].key} : Fwd(store, x) \cap Members(res[1].old) # {}


\* C31: DeleteBucket(B) deletes only engine keys that begin with B followed by the
\* delimiter: every key of every other bucket, one whose name has B as a proper
\* byte-prefix included, is still present with its value afterwards
C31_DeleteBucketConfined ==
    [][\A p \in Procs :
           (/\ stack[p] # << >>
            /\ Len(stack'[p]) = Len(stack[p])
            /\ nops' = nops + 1
            /\ res'[p].op = "DeleteBucket")
           => LET before == ViewOf(Top(p))
                  after  == ViewOf(stack'[p][Len(stack'[p])])
              IN  \A key \in DOMAIN before :
                      ~HasPrefix(key, BucketToPrefix(res'[p].bucket))
                          => key \in DOMAIN after /\ after[key] = before[key]]_vars


\* C32: Update and View return a non-nil error exactly when the nesting check fails,
\* fn returns an error or the engine transaction fails; the error returned when fn
\* returned e wraps e, and the result is nil when fn returns nil and the engine
\* succeeds
C32_ErrorExactlyOnFailure ==
    \A p \in Procs :
        ret[p].kind # "none" =>
            /\ ret[p].chain # << >>
                   <=> (ret[p].ctxOpen \/ ret[p].fnErr \/ ~ret[p].engineOk)
            /\ ret[p].err = "nil" <=> ret[p].chain = << >>
            /\ ret[p].fnErr =>
                   \E n \in 1..Len(ret[p].chain) :
                       SubSeq(ret[p].chain, n, Len(ret[p].chain)) = FnError
            /\ (ret[p].ctxOpen /\ ~ret[p].fnInvoked) =>
                   ret[p].chain[Len(ret[p].chain)] = "TransactionAlreadyOpenError"

\* an Update whose fn issued an operation and then returned an error has returned
C32_Witness ==
    /\ ret[1].kind = "Update"
    /\ ret[1].fnErr
    /\ nops > 0
    /\ ret[1].chain # << >>


\* C33: the marker does not outlive its transaction: once Update or View has
\* returned, with or without error, the context the caller passed is unmarked, and
\* each further View/Update call made with it is accepted
C33_MarkerEndsWithTransaction ==
    /\ [](\A p \in Callers :
             stack[p] = << >> => ~IsTransactionOpen(CallerContext(p, FALSE)))
    /\ [][\A p \in Callers :
             (stack[p] = << >> /\ ret[p].kind # "none" /\ ncalls' = ncalls + 1)
             => /\ Len(stack'[p]) = 1
                /\ ~IsTransactionOpen(stack'[p][1].callCtx)
                /\ ret'[p] = ret[p]]_vars

\* a call made after an earlier call returned an error has been accepted and its fn
\* is running
C33_Witness ==
    /\ ret[1].kind # "none"
    /\ ret[1].err # "nil"
    /\ ret[1].fnInvoked
    /\ Len(stack[1]) = 1
    /\ ~IsTransactionOpen(stack[1][1].callCtx)


\* C34: DB.View is read-only: no Put, Delete, CreateBucket or DeleteBucket that fn
\* attempts on the transaction of a View, and not the return of the View either,
\* changes the store, and none of the attempts is pending in the transaction, so
\* every later transaction observes the store as it was
C34_ViewReadOnly ==
    [][\A p \in Callers :
          (/\ stack[p] # << >>
           /\ ~Top(p).update
           /\ Len(stack'[p]) <= Len(stack[p]))
          => /\ store' = store
             /\ Len(stack'[p]) = Len(stack[p])
                => /\ stack'[p][Len(stack'[p])].pending = << >>
                   /\ stack'[p][Len(stack'[p])].snap = Top(p).snap]_vars

\* fn of a View attempted DeleteBucket on a bucket that holds a key and was refused
\* by the engine, after another operation on the same transaction
C34_Witness ==
    /\ Len(stack[1]) = 1
    /\ ~stack[1][1].update
    /\ res[1].op = "DeleteBucket"
    /\ res[1].err # "nil"
    /\ nops >= 2
    /\ store = stack[1][1].snap
    /\ store # << >>


\* the operations of relationStore
RelOps ==
    {"Add", "Replace", "Remove", "Delete", "RelatedIDs", "IDs", "StreamIDs",
     "StreamRelatedIDs"}

\* C35: every relationStore method opens its own transaction: called with the
\* context fn of an open View or Update was handed, it returns
\* TransactionAlreadyOpenError without running its operation and leaves both
\* indices as they were
C35_RelationStoreRefusedWhenNested ==
    [][\A p \in Callers :
          (nops' = nops + 1 /\ res'[p].op \in RelOps /\ ret'[p].ctxOpen)
          => /\ ret'[p].err = "TransactionAlreadyOpenError"
             /\ res'[p].err = "TransactionAlreadyOpenError"
             /\ ~ret'[p].fnInvoked
             /\ res'[p].ids = << >>
             /\ store' = store]_vars

\* Replace was called with the context of an open transaction on a store that holds a
\* relation, and was refused
C35_Witness ==
    /\ res[1].op = "Replace"
    /\ res[1].related # << >>
    /\ ret[1].ctxOpen
    /\ ret[1].err = "TransactionAlreadyOpenError"
    /\ store # << >>


\* C36: BucketAddKey returns keys independent of the bucket name and of each other:
\* after k1 := BucketAddKey(b, x) and k2 := BucketAddKey(b, y) with x # y, k1 reads
\* b ++ '_' ++ x, k2 reads b ++ '_' ++ y and b is unchanged, whatever the spare
\* capacity of b; and the two Puts that made them, once committed, are two entries
C36_KeysIndependent ==
    LET name == SliceBytes(mem.heap, mem.bucket)
    IN  /\ (mem.stage \in {"put2", "committed"} /\ mem.x # mem.y)
           => /\ SliceBytes(mem.heap, mem.k1) = BucketAddKey(name, mem.x)
              /\ SliceBytes(mem.heap, mem.k2) = BucketAddKey(name, mem.y)
              /\ name \in BucketNames
        /\ (mem.stage = "committed" /\ mem.x # mem.y)
           => store = [k \in {BucketAddKey(name, mem.x), BucketAddKey(name, mem.y)} |->
                          IF k = BucketAddKey(name, mem.x) THEN <<1>> ELSE <<2>>]

====
